---------------------------- MODULE Spec2Model ----------------------------
(***************************************************************************)
(* A model of ser_cmd.py: serial port scan, port selection with the        *)
(* "version" probe, the framed request/response exchange (request_bap)     *)
(* with its flush and its timeout, the send wrapper and the command phase. *)
(*                                                                         *)
(* Bytes are integers 0..255 and text is a sequence of code points.  Time  *)
(* is read in whole seconds; a sleep of 10 ms advances that reading by 0   *)
(* or more.  Bytes reach a port's receive buffer one burst at a time.      *)
(***************************************************************************)
EXTENDS Integers, Sequences, FiniteSets, TLC

VARIABLES
    platform,         \* sys.platform
    openable,         \* the host: the device nodes serial.Serial(port) can open
    self_ports,       \* SerialPorts: self._ports
    args,             \* argparse result: [port, command]
    pc,               \* position of the __main__ script
    crash,            \* the uncaught exception that ended the script, or "none"
    ports,            \* __main__: ports
    port,             \* __main__: port
    com,              \* __main__: com, an index into conns, 0 for None
    resp,             \* __main__: the last value returned by send
    conns,            \* every serial.Serial object __main__ created
    tries,            \* number of answers to 'Enter port number to use: '
    cmds,             \* number of commands entered at '> '
    rescans,          \* number of ENTERs on 'Cant find usb port'
    scan_i,           \* scan_ports: position of the for loop over ports
    available_ports,  \* scan_ports: available_ports
    s,                \* scan_ports: the port s has open, 0 for none
    inbuf,            \* per port: bytes received and not yet read (inWaiting)
    wire,             \* per port: bursts the device has yet to deliver
    rpc,              \* position inside request_bap, "idle" outside
    cmd,              \* request_bap: cmd
    junk,             \* request_bap: _, the bytes the flush loop read
    r,                \* request_bap: r
    t0,               \* request_bap: t0
    now,              \* time.time()
    outcome,          \* how the last request_bap call ended
    tx,               \* payloads written by the current request_bap call
    io                \* whether the current request_bap call touched the port

vars == <<platform, openable, self_ports, args, pc, crash, ports, port, com, resp, conns, tries,
          cmds, rescans, scan_i, available_ports, s, inbuf, wire, rpc, cmd,
          junk, r, t0, now, outcome, tx, io>>

mainVars == <<platform, openable, self_ports, args, crash, ports, port, com, conns, tries, cmds,
              rescans, scan_i, available_ports, s>>

-----------------------------------------------------------------------------
(* Bounds of the model *)

NumNodes == 2      \* device nodes the host enumerates
MaxTries == 2      \* answers to the port number prompt
MaxCmds == 1       \* commands entered at the interactive prompt
MaxRescans == 1    \* rescans after an empty scan
MaxLag == 1        \* most whole seconds one sleep adds to the clock reading
MaxQueue == 2      \* bursts a device can hold back; a reply beyond is not sent

Nodes == 1..NumNodes

-----------------------------------------------------------------------------
(* Text and bytes *)

NL == <<10>>
DoubleNL == <<10, 10>>
OkMarker == <<50, 48, 48, 32, 79, 75>>
ErrorSentinel == <<101, 114, 114, 111, 114>>
VersionCmd == <<118, 101, 114, 115, 105, 111, 110>>
QuitCmd == <<113>>
timeout == 2

Str(t) == [type |-> "str", val |-> t]
NoneValue == [type |-> "NoneType", val |-> <<>>]

\* x in y for sequences: y holds x as a contiguous run
Contains(y, x) ==
    \E i \in 1..(Len(y) - Len(x) + 1) : SubSeq(y, i, i + Len(x) - 1) = x

\* str.encode(): UTF-8 of code points below U+0800
RECURSIVE Utf8Encode(_)
Utf8Encode(t) ==
    IF t = <<>> THEN <<>>
    ELSE LET c == Head(t)
             b == IF c < 128 THEN <<c>>
                  ELSE <<192 + (c \div 64), 128 + (c % 64)>>
         IN  b \o Utf8Encode(Tail(t))

\* bytes.decode('utf-8'): one- and two-byte sequences; anything else raises
RECURSIVE Utf8Decode(_)
Utf8Decode(b) ==
    IF b = <<>> THEN [ok |-> TRUE, text |-> <<>>]
    ELSE IF b[1] < 128
         THEN LET rest == Utf8Decode(Tail(b))
              IN  [ok |-> rest.ok,
                   text |-> IF rest.ok THEN <<b[1]>> \o rest.text ELSE <<>>]
    ELSE IF /\ b[1] >= 194 /\ b[1] < 224 /\ Len(b) >= 2
            /\ b[2] >= 128 /\ b[2] < 192
         THEN LET rest == Utf8Decode(Tail(Tail(b)))
              IN  [ok |-> rest.ok,
                   text |-> IF rest.ok
                            THEN <<(b[1] - 192) * 64 + (b[2] - 128)>> \o rest.text
                            ELSE <<>>]
    ELSE [ok |-> FALSE, text |-> <<>>]

-----------------------------------------------------------------------------
(* The device side of a line *)

\* what a device may put on the line after a command reaches it, as the
\* bursts in which it arrives
Replies ==
    { <<>>,                                          \* nothing attached
      <<OkMarker \o NL, NL>>,                        \* "200 OK\n" then "\n"
      <<(<<63>> \o DoubleNL)>>,                      \* "?\n\n"
      <<ErrorSentinel \o OkMarker \o DoubleNL>>,     \* "error200 OK\n\n"
      <<(<<63>> \o NL)>>,                            \* "?\n", never finished
      <<(<<255>> \o DoubleNL)>> }                    \* not UTF-8

\* the port under the Connection handed to request_bap
Line == conns[com].port

\* One more burst reaches the receive buffer.  Arrival on a line is only
\* observable through the polls of a call on that line, so it is taken
\* while such a call runs.
Deliver ==
    /\ rpc \in {"flush", "write", "read"}
    /\ wire[Line] # <<>>
    /\ inbuf' = [inbuf EXCEPT ![Line] = @ \o Head(wire[Line])]
    /\ wire' = [wire EXCEPT ![Line] = Tail(@)]
    /\ UNCHANGED <<mainVars, pc, resp, rpc, cmd, junk, r, t0, now, outcome, tx, io>>

-----------------------------------------------------------------------------------------------------------------------------------------------------
(* request_bap *)

\* the call ends: its local variables are dropped
Leave(kind, val) ==
    /\ rpc' = "ret"
    /\ outcome' = [kind |-> kind, val |-> val]
    /\ junk' = <<>>
    /\ r' = <<>>
    /\ t0' = 0
    /\ now' = 0

Raise(kind) == Leave(kind, <<>>)

\* time.sleep(sleeptime): the clock reading moves on by up to MaxLag; readings
\* beyond timeout + 1 after t0 are not told apart
Sleep ==
    \E d \in 0..MaxLag :
        /\ now + d - t0 <= timeout + 1
        /\ now' = now + d

\* b'\n\n' in r
FrameComplete(buf) == Contains(buf, DoubleNL)

\* (time.time() - t0) > timeout
Expired == (now - t0) > timeout

\* ''.join([cmd, '\n']).encode()
Payload(c) == Utf8Encode(c \o NL)

\* TypeCheck without the isinstance test
TypeCheckMissing ==
    /\ rpc = "type_check"
    /\ rpc' = "flush"
    /\ junk' = <<>>
    /\ UNCHANGED <<mainVars, pc, resp, inbuf, wire, cmd, r, t0, now, outcome,
                   tx, io>>

\* if not isinstance(cmd, str): raise TypeError('cmd must be str')
\* _ = b''
TypeCheck ==
    /\ rpc = "type_check"
    /\ IF cmd.type = "str"
       THEN /\ rpc' = "flush"
            /\ junk' = <<>>
            /\ UNCHANGED <<outcome, r, t0, now>>
       ELSE Raise("TypeError")
    /\ UNCHANGED <<mainVars, pc, resp, inbuf, wire, cmd, tx, io>>

\* while com.inWaiting(): _ += com.read(com.inWaiting()); time.sleep(0.01)
\* one turn of the flush loop: the poll finds bytes and they are read
FlushRead ==
    /\ rpc = "flush"
    /\ Len(inbuf[Line]) # 0
    /\ io' = TRUE
    /\ junk' = junk \o inbuf[Line]
    /\ inbuf' = [inbuf EXCEPT ![Line] = <<>>]
    /\ UNCHANGED <<mainVars, pc, resp, wire, rpc, cmd, r, t0, now, outcome, tx>>

\* FlushExit with "if" for "while": the loop is also left after one read
FlushExitAfterOneRead ==
    /\ rpc = "flush"
    /\ Len(inbuf[Line]) = 0 \/ junk # <<>>
    /\ io' = TRUE
    /\ rpc' = "write"
    /\ UNCHANGED <<mainVars, pc, resp, inbuf, wire, cmd, junk, r, t0, now,
                   outcome, tx>>

\* while com.inWaiting(): the poll finds nothing and the flush loop is left
FlushExit ==
    /\ rpc = "flush"
    /\ Len(inbuf[Line]) = 0
    /\ io' = TRUE
    /\ rpc' = "write"
    /\ UNCHANGED <<mainVars, pc, resp, inbuf, wire, cmd, junk, r, t0, now,
                   outcome, tx>>

\* com.write(...); r = b''; t0 = time.time().  The device that receives the
\* command queues its reply behind whatever it still has to send.  The clock's
\* origin is moved to t0; _ is not read again.
Write ==
    /\ rpc = "write"
    /\ junk' = <<>>
    /\ tx' = Append(tx, Payload(cmd.val))
    /\ io' = TRUE
    /\ \E reply \in Replies :
          /\ Len(wire[Line]) + Len(reply) <= MaxQueue
          /\ wire' = [wire EXCEPT ![Line] = @ \o reply]
    /\ r' = <<>>
    /\ now' = 0
    /\ t0' = 0
    /\ rpc' = "read"
    /\ UNCHANGED <<mainVars, pc, resp, inbuf, cmd, outcome>>

\* while com.inWaiting(): r += com.read(com.inWaiting()); time.sleep(sleeptime)
\* one turn of the inner loop: the poll finds bytes and they are read
RdRead ==
    /\ rpc = "read"
    /\ Len(inbuf[Line]) # 0
    /\ r' = r \o inbuf[Line]
    /\ inbuf' = [inbuf EXCEPT ![Line] = <<>>]
    /\ Sleep
    /\ UNCHANGED <<mainVars, pc, resp, wire, rpc, cmd, junk, t0, outcome, tx, io>>

\* return r.decode('utf-8')
Decode ==
    LET d == Utf8Decode(r)
    IN  IF d.ok THEN Leave("return", d.text) ELSE Raise("UnicodeDecodeError")

\* RdCheck with the command written again while the reply is incomplete
RdCheckWritesAgain ==
    /\ rpc = "read"
    /\ Len(inbuf[Line]) = 0
    /\ IF FrameComplete(r)
       THEN Decode /\ UNCHANGED tx
       ELSE IF Expired
            THEN Raise("Exception") /\ UNCHANGED tx
            ELSE /\ Sleep
                 /\ tx' = Append(tx, Payload(cmd.val))
                 /\ UNCHANGED <<rpc, outcome, r, junk, t0>>
    /\ UNCHANGED <<mainVars, pc, resp, inbuf, wire, cmd, io>>

\* the inner loop's poll finds nothing, then
\* if b'\n\n' in r: break
\* if (time.time() - t0) > timeout: raise Exception('timeout before end of message.')
\* time.sleep(sleeptime)
RdCheck ==
    /\ rpc = "read"
    /\ Len(inbuf[Line]) = 0
    /\ IF FrameComplete(r)
       THEN Decode
       ELSE IF Expired
            THEN Raise("Exception")
            ELSE /\ Sleep
                 /\ UNCHANGED <<rpc, outcome, r, junk, t0>>
    /\ UNCHANGED <<mainVars, pc, resp, inbuf, wire, cmd, tx, io>>

\* inWaiting(), read() and write() raise serial.SerialException when the port
\* fails under them; what was buffered or in flight on it is lost
IOError ==
    /\ rpc \in {"flush", "write", "read"}
    /\ Raise("SerialException")
    /\ io' = TRUE
    /\ inbuf' = [inbuf EXCEPT ![Line] = <<>>]
    /\ wire' = [wire EXCEPT ![Line] = <<>>]
    /\ UNCHANGED <<mainVars, pc, resp, cmd, tx>>

request_bap ==
    \/ TypeCheck
    \/ FlushRead
    \/ FlushExit
    \/ Write
    \/ RdRead
    \/ RdCheck
    \/ IOError

-----
(* send *)

\* try: return request_bap(com, cmd) / except Exception: return 'error'
SendResult(o) == IF o.kind = "return" THEN o.val ELSE ErrorSentinel

\* the caller's position after send returns
AfterSend(p) ==
    CASE p = "probe_wait" -> "inspect"
      [] p = "cmd_wait" -> "close"
      [] p = "version_wait" -> "repl"
      [] p = "repl_wait" -> "repl"
      [] OTHER -> p

\* send(com, c) is entered: request_bap starts with fresh locals
Call(c) ==
    /\ rpc' = "type_check"
    /\ cmd' = c
    /\ junk' = <<>>
    /\ r' = <<>>
    /\ tx' = <<>>
    /\ io' = FALSE
    /\ outcome' = [kind |-> "running", val |-> <<>>]
    /\ UNCHANGED <<t0, now>>

\* the locals and the record of a call that has ended
Ended ==
    /\ rpc' = "idle"
    /\ cmd' = NoneValue
    /\ junk' = <<>>
    /\ r' = <<>>
    /\ t0' = 0
    /\ now' = 0
    /\ outcome' = [kind |-> "none", val |-> <<>>]
    /\ tx' = <<>>
    /\ io' = FALSE

\* send returns.  The port selection keeps the value in resp; the command
\* phase hands it to print_resp and does not read it again.
SendReturn ==
    /\ rpc = "ret"
    /\ pc \in {"probe_wait", "cmd_wait", "version_wait", "repl_wait"}
    /\ resp' = IF pc = "probe_wait" THEN SendResult(outcome) ELSE resp
    /\ Ended
    /\ pc' = AfterSend(pc)
    /\ UNCHANGED <<mainVars, inbuf, wire>>

-----------------------------------------------------------------------------
(* SerialPorts.scan_ports, SerialPorts.get_ports *)

reqVars == <<inbuf, wire, rpc, cmd, junk, r, t0, now, outcome, tx, io>>

\* ['COM%s' % (i + 1) for i in range(256)] or glob.glob('/dev/tty[A-Za-z]*'):
\* the names the platform gives the host's device nodes
Globbed == [i \in 1..NumNodes |-> i]

\* the values of sys.platform told apart
Platforms == {"linux", "linux2", "win32", "cygwin", "darwin"}

\* neither sys.platform.startswith('win') nor startswith('linux') holds
Unsupported == platform \notin {"linux", "linux2", "win32"}

\* logging levels
ERROR == 40
CRITICAL == 50

\* logger.setLevel(logging.CRITICAL) in scan_ports
ScanLoggerLevel == CRITICAL

\* Logger.isEnabledFor: a record below the logger's level is dropped
Emitted(level, loggerLevel) == level >= loggerLevel

\* the uncaught exception ends the script
Die(e) ==
    /\ pc' = "crashed"
    /\ crash' = e

\* ScanBegin with available_ports kept from the call before
ScanBeginKeepsList(stored) ==
    /\ scan_i' = 1
    /\ self_ports' = stored
    /\ IF Unsupported
       THEN /\ ports' = stored
            /\ pc' = "wait_enter"
       ELSE /\ pc' = "scan_open"
            /\ UNCHANGED ports
    /\ UNCHANGED available_ports

\* scan_ports begins on an object whose _ports is stored.  On an unsupported
\* platform it returns None at once and get_ports returns the stored _ports.
ScanBegin(stored) ==
    /\ available_ports' = <<>>
    /\ scan_i' = 1
    /\ self_ports' = stored
    /\ IF Unsupported
       THEN /\ ports' = stored
            /\ pc' = "wait_enter"
       ELSE /\ pc' = "scan_open"
            /\ UNCHANGED ports

\* ports = SerialPorts().get_ports(): __init__ sets _ports = [] and scan_ports
\* begins
ScanStart ==
    /\ pc = "scan"
    /\ ScanBegin(<<>>)
    /\ UNCHANGED <<platform, openable, args, crash, port, com, resp, conns,
                   tries, cmds, rescans, s, reqVars>>

\* ScanOpen with the SerialException let through: the first failed open ends
\* the scan with what it has found
ScanOpenStopsAtFailure ==
    /\ pc = "scan_open"
    /\ IF scan_i > Len(Globbed)
       THEN /\ self_ports' = available_ports
            /\ ports' = available_ports
            /\ pc' = IF available_ports = <<>> THEN "wait_enter" ELSE "select"
            /\ rescans' = IF available_ports = <<>> THEN rescans ELSE 0
            /\ UNCHANGED <<s, scan_i>>
       ELSE IF Globbed[scan_i] \in openable
            THEN /\ s' = Globbed[scan_i]
                 /\ pc' = "scan_close"
                 /\ UNCHANGED <<self_ports, ports, scan_i, rescans>>
            ELSE /\ scan_i' = Len(Globbed) + 1
                 /\ UNCHANGED <<self_ports, ports, s, pc, rescans>>
    /\ UNCHANGED <<platform, openable, args, crash, port, com, resp, conns,
                   tries, cmds, available_ports, reqVars>>

\* for port in ports: try: s = serial.Serial(port) ... except SerialException: pass
\* after the loop: self._ports = available_ports, get_ports returns it, and
\* back in __main__: if not ports: ... input() else: break
\* (rescans counts the rescans in a row; it starts over once ports are found)
ScanOpen ==
    /\ pc = "scan_open"
    /\ IF scan_i > Len(Globbed)
       THEN /\ self_ports' = available_ports
            /\ ports' = available_ports
            /\ pc' = IF available_ports = <<>> THEN "wait_enter" ELSE "select"
            /\ rescans' = IF available_ports = <<>> THEN rescans ELSE 0
            /\ UNCHANGED <<s, scan_i>>
       ELSE IF Globbed[scan_i] \in openable
            THEN /\ s' = Globbed[scan_i]
                 /\ pc' = "scan_close"
                 /\ UNCHANGED <<self_ports, ports, scan_i, rescans>>
            ELSE /\ scan_i' = scan_i + 1
                 /\ UNCHANGED <<self_ports, ports, s, pc, rescans>>
    /\ UNCHANGED <<platform, openable, args, crash, port, com, resp, conns,
                   tries, cmds, available_ports, reqVars>>

\* ScanClose without s.close()
ScanCloseLeavesOpen ==
    /\ pc = "scan_close"
    /\ available_ports' = Append(available_ports, Globbed[scan_i])
    /\ scan_i' = scan_i + 1
    /\ pc' = "scan_open"
    /\ UNCHANGED <<platform, openable, self_ports, args, crash, ports, port,
                   com, resp, conns, tries, cmds, rescans, s, reqVars>>

\* s.close(); available_ports.append(port)
ScanClose ==
    /\ pc = "scan_close"
    /\ s' = 0
    /\ available_ports' = Append(available_ports, Globbed[scan_i])
    /\ scan_i' = scan_i + 1
    /\ pc' = "scan_open"
    /\ UNCHANGED <<platform, openable, self_ports, args, crash, ports, port,
                   com, resp, conns, tries, cmds, rescans, reqVars>>

\* WaitEnter with the loop left on ENTER: the script goes on without ports
WaitEnterGoesOn ==
    /\ pc = "wait_enter"
    /\ \/ /\ pc' = "select"
          /\ UNCHANGED crash
       \/ /\ \E e \in {"EOFError", "KeyboardInterrupt"} : Die(e)
    /\ UNCHANGED <<platform, openable, self_ports, args, ports, port, com,
                   resp, conns, tries, cmds, rescans, scan_i, available_ports,
                   s, reqVars>>

\* logger.critical('Cant find usb port. Check connection cable and press
\* ENTER...'); input(): the operator sees to the cable, so that the host may
\* have changed, and ENTER rescans; end of input or Ctrl-C ends the script
WaitEnter ==
    /\ pc = "wait_enter"
    /\ \/ /\ rescans < MaxRescans
          /\ rescans' = rescans + 1
          /\ openable' \in SUBSET Nodes
          /\ pc' = "scan"
          /\ UNCHANGED crash
       \/ /\ \E e \in {"EOFError", "KeyboardInterrupt"} : Die(e)
          /\ UNCHANGED <<rescans, openable>>
    /\ UNCHANGED <<platform, self_ports, args, ports, port, com, resp, conns,
                   tries, cmds, scan_i, available_ports, s, reqVars>>

-----------------------------------------------------------------------------
(* __main__: port selection *)

\* serial.Serial(port=p, baudrate=115200, timeout=0.01, rtscts=True) bound to
\* com: a new open Connection, or SerialException
OpenSerial(p) ==
    /\ conns' = Append(conns, [port |-> p, open |-> TRUE])
    /\ com' = Len(conns) + 1

\* com = None; if args.port: com = serial.Serial(port=args.port, ...)
Start ==
    /\ pc = "start"
    /\ IF args.port # 0
       THEN \/ /\ OpenSerial(args.port)
               /\ pc' = "cmd_phase"
               /\ UNCHANGED crash
            \/ /\ Die("SerialException")
               /\ UNCHANGED <<conns, com>>
       ELSE /\ pc' = "scan"
            /\ UNCHANGED <<crash, conns, com>>
    /\ UNCHANGED <<platform, openable, self_ports, args, ports, port, resp, tries, cmds, rescans,
                   scan_i, available_ports, s, reqVars>>

\* if len(ports) > 1: ... else: port = ports[0]
Select ==
    /\ pc = "select"
    /\ IF Len(ports) > 1
       THEN /\ pc' = "prompt"
            /\ UNCHANGED port
       ELSE /\ port' = ports[1]
            /\ pc' = "open_rest"
    /\ UNCHANGED <<platform, openable, self_ports, args, crash, ports, com, resp, conns, tries, cmds,
                   rescans, scan_i, available_ports, s, reqVars>>

\* ports[int(port_num)]: a negative number counts from the end
Index(n) == IF n < 0 THEN n + Len(ports) + 1 ELSE n + 1

\* port_num = input('Enter port number to use: '); port = ports[int(port_num)]
Prompt ==
    /\ pc = "prompt"
    /\ \/ /\ tries < MaxTries
          /\ tries' = tries + 1
          /\ \E n \in -1..Len(ports) :
                IF Index(n) \in 1..Len(ports)
                THEN /\ port' = ports[Index(n)]
                     /\ pc' = "probe_open"
                     /\ UNCHANGED crash
                ELSE /\ Die("IndexError")
                     /\ UNCHANGED port
       \/ /\ \E e \in {"ValueError", "EOFError", "KeyboardInterrupt"} : Die(e)
          /\ UNCHANGED <<port, tries>>
    /\ UNCHANGED <<platform, openable, self_ports, args, ports, com, resp, conns, cmds, rescans,
                   scan_i, available_ports, s, reqVars>>

\* com = serial.Serial(port=port, ...)
ProbeOpen ==
    /\ pc = "probe_open"
    /\ \/ /\ OpenSerial(port)
          /\ pc' = "probe_send"
          /\ UNCHANGED crash
       \/ /\ Die("SerialException")
          /\ UNCHANGED <<conns, com>>
    /\ UNCHANGED <<platform, openable, self_ports, args, ports, port, resp, tries, cmds, rescans,
                   scan_i, available_ports, s, reqVars>>

\* resp = send(com, 'version')
ProbeSend ==
    /\ pc = "probe_send"
    /\ Call(Str(VersionCmd))
    /\ pc' = "probe_wait"
    /\ UNCHANGED <<mainVars, resp, inbuf, wire>>

\* 'error' in resp
Rejected(text) == Contains(text, ErrorSentinel)

\* Inspect without the 'error' branch: every reply ends the search
InspectAcceptsAll ==
    /\ pc = "inspect"
    /\ pc' = "open_rest"
    /\ UNCHANGED <<mainVars, resp, reqVars>>

\* if 'error' in resp: print(...) elif '200 OK' in resp: break else: break
Inspect ==
    /\ pc = "inspect"
    /\ pc' = IF Rejected(resp) THEN "prompt"
             ELSE IF Contains(resp, OkMarker) THEN "open_rest"
             ELSE "open_rest"
    /\ UNCHANGED <<mainVars, resp, reqVars>>

\* OpenRest without the open of line 182
OpenRestSkipsOpen ==
    /\ pc = "open_rest"
    /\ resp' = <<>>
    /\ pc' = "cmd_phase"
    /\ UNCHANGED <<platform, openable, self_ports, args, crash, ports, port,
                   com, conns, tries, cmds, rescans, scan_i, available_ports,
                   s, reqVars>>

\* if not com: com = serial.Serial(port=port, ...)
\* (resp is not read again before it is next assigned)
OpenRest ==
    /\ pc = "open_rest"
    /\ resp' = <<>>
    /\ IF com = 0
       THEN \/ /\ OpenSerial(port)
               /\ pc' = "cmd_phase"
               /\ UNCHANGED crash
            \/ /\ Die("SerialException")
               /\ UNCHANGED <<conns, com>>
       ELSE /\ pc' = "cmd_phase"
            /\ UNCHANGED <<crash, conns, com>>
    /\ UNCHANGED <<platform, openable, self_ports, args, ports, port, tries, cmds, rescans,
                   scan_i, available_ports, s, reqVars>>

\* com = serial.Serial(...) has bound the new object: a Serial object that
\* com referred to before has lost its last reference.  The interpreter
\* closes it when it finalizes it (io.IOBase.__del__): at this rebinding, at
\* a later one, or never.
Finalize ==
    /\ pc = "probe_send"
    /\ \E i \in 1..Len(conns) :
          /\ i # com
          /\ conns[i].open
          /\ conns' = [conns EXCEPT ![i].open = FALSE]
    /\ UNCHANGED <<platform, openable, self_ports, args, pc, crash, ports, port, com, resp, tries,
                   cmds, rescans, scan_i, available_ports, s, reqVars>>

-----------------------------------------------------------------------------
(* __main__: command phase *)

\* what the operator types at '> ' besides q
Typed == { <<63>> }

\* if args.command: print_resp(send(com, args.command))
\* else: print_resp(send(com, 'version')) ...
CmdPhase ==
    /\ pc = "cmd_phase"
    /\ IF args.command # <<>>
       THEN Call(Str(args.command)) /\ pc' = "cmd_wait"
       ELSE Call(Str(VersionCmd)) /\ pc' = "version_wait"
    /\ UNCHANGED <<mainVars, resp, inbuf, wire>>

\* cmd = input('> '); if cmd == 'q': raise KeyboardInterrupt;
\* resp = send(com, cmd); print_resp(resp)
Repl ==
    /\ pc = "repl"
    /\ \/ /\ cmds < MaxCmds
          /\ cmds' = cmds + 1
          /\ \E c \in Typed \cup {QuitCmd} :
                IF c = QuitCmd
                THEN /\ pc' = "close"
                     /\ UNCHANGED <<rpc, cmd, junk, r, outcome, tx, io>>
                ELSE /\ Call(Str(c))
                     /\ pc' = "repl_wait"
          /\ UNCHANGED crash
       \/ /\ Die("EOFError")
          /\ UNCHANGED <<cmds, rpc, cmd, junk, r, outcome, tx, io>>
       \/ /\ pc' = "close"
          /\ UNCHANGED <<crash, cmds, rpc, cmd, junk, r, outcome, tx, io>>
    /\ UNCHANGED <<platform, openable, self_ports, args, ports, port, com, resp, conns, tries,
                   rescans, scan_i, available_ports, s, inbuf, wire, t0, now>>

\* Ctrl-C while send runs: KeyboardInterrupt is no Exception, so send lets it
\* through; the try of the command phase catches it, the port selection does not
Interrupt ==
    /\ rpc \notin {"idle"}
    /\ Ended
    /\ IF pc = "probe_wait"
       THEN Die("KeyboardInterrupt")
       ELSE pc' = "close" /\ UNCHANGED crash
    /\ UNCHANGED <<platform, openable, self_ports, args, ports, port, com, resp, conns, tries, cmds,
                   rescans, scan_i, available_ports, s, inbuf, wire>>

\* com.close(); exit(0)
Close ==
    /\ pc = "close"
    /\ conns' = [conns EXCEPT ![com].open = FALSE]
    /\ pc' = "done"
    /\ UNCHANGED <<platform, openable, self_ports, args, crash, ports, port, com, resp, tries, cmds,
                   rescans, scan_i, available_ports, s, reqVars>>

-----------------------------------------------------------------------------
(* The script *)

Init ==
    /\ platform \in {"linux", "darwin"}
    /\ openable \in SUBSET Nodes
    /\ self_ports = <<>>
    /\ args \in [port : 0..NumNodes, command : {<<>>} \cup Typed]
    /\ pc = "start"
    /\ crash = "none"
    /\ ports = <<>>
    /\ port = 0
    /\ com = 0
    /\ resp = <<>>
    /\ conns = <<>>
    /\ tries = 0
    /\ cmds = 0
    /\ rescans = 0
    /\ scan_i = 1
    /\ available_ports = <<>>
    /\ s = 0
    /\ inbuf = [p \in Nodes |-> <<>>]
    /\ wire = [p \in Nodes |-> <<>>]
    /\ rpc = "idle"
    /\ cmd = NoneValue
    /\ junk = <<>>
    /\ r = <<>>
    /\ t0 = 0
    /\ now = 0
    /\ outcome = [kind |-> "none", val |-> <<>>]
    /\ tx = <<>>
    /\ io = FALSE

Next ==
    \/ Start
    \/ ScanStart
    \/ ScanOpen
    \/ ScanClose
    \/ WaitEnter
    \/ Select
    \/ Prompt
    \/ ProbeOpen
    \/ ProbeSend
    \/ Inspect
    \/ OpenRest
    \/ Finalize
    \/ CmdPhase
    \/ Repl
    \/ Interrupt
    \/ Close
    \/ request_bap
    \/ SendReturn
    \/ Deliver

Spec == Init /\ [][Next]_vars

\* the script up to the end of the port selection (lines 144-182): it stops
\* where the command phase would begin
NextSelection ==
    \/ Start
    \/ ScanStart
    \/ ScanOpen
    \/ ScanClose
    \/ WaitEnter
    \/ Select
    \/ Prompt
    \/ ProbeOpen
    \/ ProbeSend
    \/ Inspect
    \/ OpenRest
    \/ Finalize
    \/ request_bap
    \/ SendReturn
    \/ Interrupt
    \/ Deliver

SpecSelection == Init /\ [][NextSelection]_vars

-----------------------------------------------------------------------------
(* send and request_bap on their own: any command value on an open          *)
(* Connection whose line may hold noise                                     *)

\* the values a caller may pass as cmd
Values ==
    { Str(VersionCmd), Str(<<233>>), NoneValue,
      [type |-> "bytes", val |-> VersionCmd] }

\* what may be pending on the line before a call
Noise == { <<>>, <<63>>, DoubleNL }

InitExchange ==
    /\ platform = "linux"
    /\ openable = Nodes
    /\ self_ports = <<>>
    /\ args = [port |-> 1, command |-> <<>>]
    /\ pc = "caller"
    /\ crash = "none"
    /\ ports = <<>>
    /\ port = 0
    /\ com = 1
    /\ resp = <<>>
    /\ conns = <<[port |-> 1, open |-> TRUE]>>
    /\ tries = 0
    /\ cmds = 0
    /\ rescans = 0
    /\ scan_i = 1
    /\ available_ports = <<>>
    /\ s = 0
    /\ inbuf \in [Nodes -> Noise]
    /\ \A p \in Nodes : p # 1 => inbuf[p] = <<>>
    /\ wire \in [Nodes -> {<<>>, <<NL>>}]
    /\ \A p \in Nodes : p # 1 => wire[p] = <<>>
    /\ rpc = "idle"
    /\ cmd = NoneValue
    /\ junk = <<>>
    /\ r = <<>>
    /\ t0 = 0
    /\ now = 0
    /\ outcome = [kind |-> "none", val |-> <<>>]
    /\ tx = <<>>
    /\ io = FALSE

\* send(com, c)
CallerSend ==
    /\ pc = "caller"
    /\ cmds <= MaxCmds
    /\ cmds' = cmds + 1
    /\ \E c \in Values : Call(c)
    /\ pc' = "caller_wait"
    /\ UNCHANGED <<platform, openable, self_ports, args, crash, ports, port, com, resp, conns, tries,
                   rescans, scan_i, available_ports, s, inbuf, wire>>

\* send returns to the caller
CallerReturn ==
    /\ rpc = "ret"
    /\ pc = "caller_wait"
    /\ resp' = SendResult(outcome)
    /\ Ended
    /\ pc' = "caller"
    /\ UNCHANGED <<mainVars, inbuf, wire>>

NextExchange ==
    \/ CallerSend
    \/ request_bap
    \/ CallerReturn
    \/ Deliver

SpecExchange == InitExchange /\ [][NextExchange]_vars

-----------------------------------------------------------------------------
(* SerialPorts on its own: get_ports called again and again on one object   *)
(* while the host stays as it is                                            *)

InitDiscover ==
    /\ platform \in Platforms
    /\ openable \in SUBSET Nodes
    /\ self_ports = <<>>
    /\ args = [port |-> 0, command |-> <<>>]
    /\ pc = "scan"
    /\ crash = "none"
    /\ ports = <<>>
    /\ port = 0
    /\ com = 0
    /\ resp = <<>>
    /\ conns = <<>>
    /\ tries = 0
    /\ cmds = 0
    /\ rescans = 0
    /\ scan_i = 1
    /\ available_ports = <<>>
    /\ s = 0
    /\ inbuf = [p \in Nodes |-> <<>>]
    /\ wire = [p \in Nodes |-> <<>>]
    /\ rpc = "idle"
    /\ cmd = NoneValue
    /\ junk = <<>>
    /\ r = <<>>
    /\ t0 = 0
    /\ now = 0
    /\ outcome = [kind |-> "none", val |-> <<>>]
    /\ tx = <<>>
    /\ io = FALSE

\* get_ports() once more on the object that has returned: scan_ports begins
\* with _ports as the call before left it
GetPortsAgain ==
    /\ pc \in {"wait_enter", "select"}
    /\ rescans < MaxRescans
    /\ rescans' = rescans + 1
    /\ ScanBegin(self_ports)
    /\ UNCHANGED <<platform, openable, args, crash, port, com, resp, conns,
                   tries, cmds, s, reqVars>>

NextDiscover ==
    \/ ScanStart
    \/ ScanOpen
    \/ ScanClose
    \/ GetPortsAgain

SpecDiscover == InitDiscover /\ [][NextDiscover]_vars

-----------------------------------------------------------------------------
(* Properties *)

\* the Connections that are open
OpenConns == {i \in DOMAIN conns : conns[i].open}

\* the ports the port selection has opened a Connection on
Probed == {conns[i].port : i \in DOMAIN conns}

\* the candidates of the scan
Candidates == {ports[i] : i \in DOMAIN ports}

\* C1: request_bap returns successfully if and only if r comes to hold two
\* consecutive newlines within the 2 seconds counted from t0; in every other
\* case it raises the timeout Exception and hands nothing over.
\* (First line: r is not completed by a read made after the budget.  Second
\* line: when the loop is left with the port in order, a complete r is
\* returned and an incomplete one ends in the timeout Exception.)
C1_ReturnsIffFrameWithinBudget ==
    [][ /\ (rpc = "read" /\ ~FrameComplete(r) /\ FrameComplete(r'))
            => ~Expired
        /\ (rpc = "read" /\ rpc' = "ret" /\ outcome'.kind # "SerialException")
            => IF FrameComplete(r)
               THEN outcome'.kind = "return"
               ELSE outcome'.kind = "Exception" /\ outcome'.val = <<>>
      ]_vars

\* C2: once the 2 seconds have elapsed without a complete frame, request_bap
\* fails with the timeout instead of reading on: no read is begun with the
\* budget elapsed and r incomplete.
C2_NoReadAfterBudget ==
    [][(rpc = "read" /\ rpc' = "read" /\ r' # r)
          => ~(Expired /\ ~FrameComplete(r))]_vars

\* C3: at most one Connection is open at any time: the Connection of a
\* rejected candidate is closed before the next candidate is opened.
C3_AtMostOneOpen ==
    Cardinality(OpenConns) + (IF s # 0 THEN 1 ELSE 0) <= 1

\* C4: a probed candidate is accepted (the prompt loop is left with its
\* Connection) only if the reply to "version" contains "200 OK".
C4_AcceptedOnlyWithMarker ==
    (pc = "open_rest" /\ Len(ports) > 1) => Contains(resp, OkMarker)

\* C5: when the scan yields exactly one candidate, that candidate has been
\* probed (which takes an answered prompt) before the command phase uses its
\* Connection.
C5_SingleCandidateProbed ==
    (pc = "cmd_phase" /\ args.port = 0 /\ Len(ports) = 1) => tries > 0

\* C6 as claimed: when every candidate has been probed and rejected, the
\* search is over (it reports failure as a whole): it is not asking for a
\* port again.
C6_ExhaustionEndsSearch ==
    ~(pc = "prompt" /\ tries > 0 /\ Probed = Candidates)

\* C6 as amended: after a rejected probe the search asks the operator for a
\* port number again, with no limit on the candidates already rejected, and it
\* leaves the prompt loop only with the open Connection of a probe that was
\* not rejected.
C6_RejectedKeepsPrompting ==
    /\ (pc = "prompt" /\ tries > 0) => Rejected(resp)
    /\ (pc = "open_rest" /\ Len(ports) > 1)
          => /\ ~Rejected(resp)
             /\ com = Len(conns)
             /\ conns[com].open

\* C6 witness: every candidate has been probed and rejected, and the prompt
\* is up again.
C6_Witness ==
    /\ pc = "prompt"
    /\ Probed = Candidates
    /\ Len(conns) = Len(ports)
    /\ Rejected(resp)

\* C7: a candidate whose reply to "version" contains "200 OK" is selected: it
\* is never sent back to the prompt.
C7_OkReplySelected ==
    ~(pc = "prompt" /\ tries > 0 /\ Contains(resp, OkMarker))

\* C8: a failure to open a candidate during probing does not end the script:
\* no step from the open of a candidate ends in the crash.
C8_OpenFailureAbsorbed ==
    [][pc = "probe_open" => pc' # "crashed"]_vars

\* C9 as claimed: when request_bap writes the command, nothing is pending on
\* the line.
C9_NothingPendingAtWrite ==
    rpc = "write" => Len(inbuf[Line]) = 0

\* C9 as amended: the flush loop is left for the write only by a poll that
\* finds nothing pending, whatever was buffered before; every flush read
\* takes all that is pending into _.
C9_FlushEndsOnEmptyPoll ==
    [][ /\ (rpc # "write" /\ rpc' = "write")
            => (Len(inbuf[Line]) = 0 /\ inbuf' = inbuf)
        /\ (rpc = "flush" /\ rpc' = "flush" /\ junk' # junk)
            => (inbuf'[Line] = <<>> /\ junk' = junk \o inbuf[Line])
      ]_vars

\* C9 witness: noise was pending, the flush loop has read it, and the write
\* is next with nothing pending.
C9_Witness ==
    /\ rpc = "write"
    /\ junk # <<>>
    /\ Len(inbuf[Line]) = 0

CommandPhase ==
    {"cmd_phase", "cmd_wait", "version_wait", "repl", "repl_wait", "close"}

\* C11: what send hands its caller after an exchange that timed out differs
\* from what it hands over after an exchange that failed in inWaiting, read
\* or write, so that the caller can tell the two apart.
C11_TimeoutToldFromTransportError ==
    [][(rpc = "ret" /\ rpc' = "idle" /\ pc = "caller_wait"
            /\ outcome.kind = "Exception")
          => resp' # SendResult([kind |-> "SerialException", val |-> <<>>])]_vars

\* C12: every step by which the script ends from its command phase leaves
\* the Connection com closed.
C12_ClosedBeforeExit ==
    [][(pc \in CommandPhase /\ pc' \in {"done", "crashed"})
          => ~conns'[com'].open]_vars

\* serial.Serial(port) succeeds on p
Openable(p) == p \in openable

\* the enumerated names whose open succeeds, in the order enumerated
Found == SelectSeq(Globbed, Openable)

\* get_ports has returned
Returned == pc \in {"wait_enter", "select"}

\* C13: on a supported platform get_ports returns exactly the enumerated
\* names whose open succeeds, in the order enumerated, and stores the same
\* list: a name whose open fails is left out without ending the scan, a name
\* whose open succeeds is always in.
C13_ExactlyTheOpenable ==
    (Returned /\ ~Unsupported) => (ports = Found /\ self_ports = Found)

\* C13 witness: the first name failed to open and get_ports has returned a
\* later one.
C13_Witness ==
    /\ Returned
    /\ ~Unsupported
    /\ ~Openable(Globbed[1])
    /\ ports # <<>>
    /\ ports = Found

\* C14: the scan opens a name only with no port of its own open, the name
\* at the loop's position; the close moves the loop on by one name, so that
\* no name is opened twice in a scan; nothing is open when get_ports returns.
C14_OpenedOnceClosedBeforeNext ==
    [][ /\ (s' # s /\ s' # 0)
            => (s = 0 /\ pc = "scan_open" /\ s' = Globbed[scan_i]
                  /\ scan_i' = scan_i)
        /\ (s' # s /\ s' = 0) => scan_i' = scan_i + 1
        /\ (scan_i' # scan_i)
            => (scan_i' = scan_i + 1 \/ (scan_i' = 1 /\ pc # "scan_open"
                                            /\ pc # "scan_close"))
        /\ (pc' \in {"wait_enter", "select"}) => s' = 0
      ]_vars

\* C14 witness: every name was opened and closed and get_ports has returned
\* them all.
C14_Witness ==
    /\ Returned
    /\ Len(ports) = NumNodes
    /\ scan_i = NumNodes + 1
    /\ s = 0

\* C15 as claimed: an empty result of the scan ends the search; it is not
\* taken up again.
C15_EmptyScanEndsSearch ==
    [][pc = "wait_enter" => pc' \in {"wait_enter", "done", "crashed"}]_vars

\* C15 as amended: with no candidate the script has opened no Connection and
\* made no probe; it waits for ENTER and then scans again, or ends with the
\* exception of the interrupted input.
C15_EmptyScanWaitsAndRescans ==
    [][pc = "wait_enter"
          => /\ ports = <<>>
             /\ com = 0
             /\ conns = <<>>
             /\ tries = 0
             /\ s = 0
             /\ pc' \in {"wait_enter", "scan", "crashed"}
             /\ (pc' = "crashed" => crash' \in {"EOFError", "KeyboardInterrupt"})
      ]_vars

\* C15 witness: a scan after ENTER on a supported platform has come back
\* empty again.
C15_Witness ==
    /\ pc = "wait_enter"
    /\ rescans > 0
    /\ ~Unsupported
    /\ ports = <<>>

\* C16: on an unsupported platform get_ports returns the empty list, opens
\* nothing, does not raise, and the 'Unsupported OS' record is emitted.
C16_UnsupportedReported ==
    [][(Unsupported /\ pc \in {"scan", "wait_enter", "select"}
            /\ pc' = "wait_enter")
          => /\ ports' = <<>>
             /\ s' = 0
             /\ crash' = "none"
             /\ Emitted(ERROR, ScanLoggerLevel)
      ]_vars

\* C17: a call of get_ports on an object that has returned before, with the
\* host as it was, returns what the call before returned.
C17_SameResultAgain ==
    [][((rescans > 0 \/ rescans' > 0) /\ pc' \in {"wait_enter", "select"})
          => ports' = ports]_vars

\* C17 witness: the second call is about to return the non-empty list that
\* the first call returned.
C17_Witness ==
    /\ pc = "scan_open"
    /\ rescans > 0
    /\ scan_i > Len(Globbed)
    /\ ports # <<>>
    /\ available_ports = ports

\* the bytes of a sequence of bursts
RECURSIVE Flat(_)
Flat(bursts) ==
    IF bursts = <<>> THEN <<>> ELSE Head(bursts) \o Flat(Tail(bursts))

\* text is made of the first bursts of one reply of the device and of
\* nothing else
OwnReply(text) ==
    \E reply \in Replies :
        \E k \in 0..Len(reply) : Utf8Encode(text) = Flat(SubSeq(reply, 1, k))

\* C18: the text request_bap returns is made only of bytes of the reply the
\* device sent to the command of that call.
C18_OnlyOwnReplyReturned ==
    (rpc = "ret" /\ outcome.kind = "return") => OwnReply(outcome.val)

\* C19 as claimed: a call that passed the argument check has, when it ends,
\* written exactly once: the command and one newline.
C19_WritesExactlyOnce ==
    (rpc = "ret" /\ cmd.type = "str") => tx = <<Utf8Encode(cmd.val) \o NL>>

\* C19 as amended: a call writes at most once, the command followed by one
\* newline, on leaving the flush loop and with r still empty; nothing is
\* written before, nothing is written again, and a call that returns, times
\* out or fails to decode has written exactly once.
C19_WritesOnceAfterFlush ==
    /\ [][(tx' # tx /\ tx' # <<>>)
             => /\ rpc = "write"
                /\ tx = <<>>
                /\ tx' = <<Utf8Encode(cmd.val) \o NL>>
                /\ r' = <<>>
                /\ rpc' = "read"]_vars
    /\ [](rpc \in {"type_check", "flush", "write"} => (tx = <<>> /\ r = <<>>))
    /\ [](rpc = "read" => Len(tx) = 1)
    /\ []((rpc = "ret"
             /\ outcome.kind \in {"return", "Exception", "UnicodeDecodeError"})
            => tx = <<Utf8Encode(cmd.val) \o NL>>)
    /\ [](rpc = "ret" => Len(tx) <= 1)

\* C19 witness: a call has timed out, having written its command once.
C19_Witness ==
    /\ rpc = "ret"
    /\ outcome.kind = "Exception"
    /\ tx = <<Utf8Encode(cmd.val) \o NL>>

\* C20: from the start of the command phase on, com refers to a Connection,
\* and that Connection is open.
C20_ComOpenInCommandPhase ==
    pc \in CommandPhase => (com \in DOMAIN conns /\ conns[com].open)

\* C20 witness: the command phase starts with the Connection of a probe that
\* was accepted after another probe had been rejected.
C20_Witness ==
    /\ pc = "cmd_phase"
    /\ Len(ports) > 1
    /\ Len(conns) > 1
    /\ com = Len(conns)
    /\ conns[com].open

=============================================================================
